---- MODULE Spec2Model ----
(***************************************************************************)
(* State-machine model of the k-means binding layer                        *)
(* (python/sparktk/models/clustering/kmeans.py): the module-level train    *)
(* function, the KMeansModel facade, the values that cross the language    *)
(* boundary, and the engine-side objects the facade forwards to.           *)
(*                                                                         *)
(* Numbers are kept exact.  A Python or JVM number is a record carrying    *)
(* `twice`, two times its value, so that 2.5 is twice = 5 and an integer   *)
(* has an even `twice`.                                                    *)
(***************************************************************************)
EXTENDS Integers, Sequences, FiniteSets, TLC

VARIABLES
    models,     \* JVM heap: sequence of engine-side KMeansModel states; handle id i is models[i]
    frame,      \* JVM heap: the engine-side frame [names, rows]
    storage,    \* persistent storage: path -> saved model state, or NoFile
    facades,    \* the Python KMeansModel objects that exist: records [_tc, _scala]
    regressors, \* JVM heap: sequence of engine-side random forest regressor states
    last,       \* the most recent call across the boundary and its outcome
    prev        \* the successful save (if any) that immediately preceded `last`

vars == <<models, frame, storage, facades, regressors, last, prev>>

-----------------------------------------------------------------------------
(* Bounds of the model.                                                    *)

MaxModels == 2

-----------------------------------------------------------------------------
(* Python-side values.                                                     *)

PyNone == [t |-> "NoneType"]
PyInt(n) == [t |-> "int", twice |-> 2 * n]
PyFloat(tw) == [t |-> "float", twice |-> tw]
PyList(items) == [t |-> "list", items |-> items]

(* JVM-side values.                                                        *)

ScalaNone == [t |-> "None$"]
ScalaSome(v) == [t |-> "Some", get |-> v]
ScalaVector(elem, items) == [t |-> "Vector", elem |-> elem, items |-> items]
JavaLong(n) == [t |-> "Long", twice |-> 2 * n]
JavaInt(n) == [t |-> "Int", twice |-> 2 * n]
JavaDouble(tw) == [t |-> "Double", twice |-> tw]
JavaString(str) == [t |-> "String", s |-> str]
PyStr(str) == [t |-> "str", s |-> str]

NoError == "none"

Ok(v) == [err |-> NoError, val |-> v]
Raise(e) == [err |-> e, val |-> PyNone]

-----------------------------------------------------------------------------
(* Python builtins used by the binding.                                    *)

\* truth value of an object in a condition: None is false, a number is false
\* when zero, a list is false when empty, any other object is true
Truthy(v) ==
    CASE v.t = "NoneType" -> FALSE
      [] v.t \in {"int", "float"} -> v.twice # 0
      [] v.t = "list" -> Len(v.items) > 0
      [] OTHER -> TRUE

\* integer part of twice/2, rounding toward zero
TruncHalf(tw) == IF tw >= 0 THEN tw \div 2 ELSE -((-tw) \div 2)

\* long(x): an int is kept, a float is truncated toward zero, anything
\* that is not a number raises TypeError
long(x) ==
    CASE x.t = "int" -> Ok(PyInt(x.twice \div 2))
      [] x.t = "float" -> Ok(PyInt(TruncHalf(x.twice)))
      [] OTHER -> Raise("TypeError")

-----------------------------------------------------------------------------
(* The conversion helpers of tc.jutils (sparktk/jutils.py).                *)

\* a Python number handed to the JVM: int/long becomes a Long, float a Double
ToJvm(v) ==
    CASE v.t = "int" -> JavaLong(v.twice \div 2)
      [] v.t = "float" -> JavaDouble(v.twice)
      [] OTHER -> v

\* a JVM number handed back to Python
FromJvm(v) ==
    CASE v.t \in {"Long", "Int"} -> PyInt(v.twice \div 2)
      [] v.t = "Double" -> PyFloat(v.twice)
      [] v.t = "String" -> PyStr(v.s)
      [] OTHER -> v

to_scala_option(item) == IF item = PyNone THEN ScalaNone ELSE ScalaSome(ToJvm(item))

from_scala_option(opt) == IF opt = ScalaNone THEN PyNone ELSE FromJvm(opt.get)

to_scala_vector_string(list) == ScalaVector("String", list.items)

\* every element converted with float(): an int n becomes the double n.0
to_scala_vector_double(list) ==
    LET items == list.items IN
    ScalaVector("Double", [i \in 1..Len(items) |-> JavaDouble(items[i].twice)])

\* a JVM sequence as the Python list built from it
from_scala_seq(vec) ==
    LET items == vec.items IN
    IF vec.elem = "Double"
    THEN PyList([i \in 1..Len(items) |-> FromJvm(items[i])])
    ELSE PyList(items)

validate_is_jvm_instance_of(item, scala_type) ==
    IF item.cls = scala_type THEN Ok(PyNone) ELSE Raise("TypeError")

-----------------------------------------------------------------------------
(* kmeans.py, module level.                                                *)

TC == "tc"

KMeansClass == "org.trustedanalytics.sparktk.models.clustering.kmeans.KMeansModel"
FrameClass == "org.trustedanalytics.sparktk.frame.Frame"

get_scala_obj(tc) == KMeansClass

DefaultK == 2
DefaultMaxIter == 20
DefaultEpsilon == "1e-4"
DefaultInitMode == "k-means||"

\* lines 27-31: the scalings argument as the engine receives it
train_scala_scalings(scalings) ==
    IF Truthy(scalings)
    THEN to_scala_option(to_scala_vector_double(scalings))
    ELSE to_scala_option(PyNone)

\* line 33
train_seed(seed) == IF seed = PyNone THEN Ok(seed) ELSE long(seed)

\* lines 24-35: the engine invocation train makes, or the error raised
\* before the engine is reached
train_invoke(fr, columns, k, scalings, max_iter, epsilon, seed, init_mode) ==
    LET s == train_seed(seed) IN
    IF s.err # NoError THEN Raise(s.err)
    ELSE Ok([method |-> "train",
             frame |-> fr._scala,
             columns |-> to_scala_vector_string(columns),
             k |-> k,
             scalings |-> train_scala_scalings(scalings),
             maxIter |-> max_iter,
             epsilon |-> epsilon,
             initMode |-> init_mode,
             seed |-> to_scala_option(s.val)])

-----------------------------------------------------------------------------
(* kmeans.py, class KMeansModel.                                           *)

\* faulty variant of __init__: the type check left out
KMeansModel__init__unchecked(tc, scala_model) == Ok([_tc |-> tc, _scala |-> scala_model])

\* __init__: the new object, or the error of the type check
KMeansModel__init__(tc, scala_model) ==
    LET v == validate_is_jvm_instance_of(scala_model, get_scala_obj(tc)) IN
    IF v.err # NoError THEN Raise(v.err)
    ELSE Ok([_tc |-> tc, _scala |-> scala_model])

KMeansModel_load(tc, scala_model) == KMeansModel__init__(tc, scala_model)

\* faulty variant of train: the engine's error wrapped in another one
train_result_wrapped(tc, r) ==
    IF r.err # NoError THEN Raise("RuntimeError") ELSE KMeansModel__init__(tc, r.val)

\* line 36: what train returns for the engine's outcome r
train_result(tc, r) ==
    IF r.err # NoError THEN Raise(r.err) ELSE KMeansModel__init__(tc, r.val)

\* faulty variant of __columns_to_option: tests the truth value of c, as
\* train does for scalings
columns_to_option_truthy(self, c) ==
    IF Truthy(c)
    THEN to_scala_option(to_scala_vector_string(c))
    ELSE to_scala_option(PyNone)

\* lines 181-184
columns_to_option(self, c) ==
    IF c # PyNone
    THEN to_scala_option(to_scala_vector_string(c))
    ELSE to_scala_option(c)

\* the engine invocation each method makes
compute_sizes_invoke(self, fr, columns) ==
    [method |-> "computeClusterSizes", target |-> self._scala,
     frame |-> fr._scala, columns |-> columns_to_option(self, columns)]

compute_wsse_invoke(self, fr, columns) ==
    [method |-> "computeWsse", target |-> self._scala,
     frame |-> fr._scala, columns |-> columns_to_option(self, columns)]

\* faulty variant of predict: forwards to the wrong engine method
predict_invoke_wrong_method(self, fr, columns) ==
    [method |-> "addDistanceColumns", target |-> self._scala,
     frame |-> fr._scala, columns |-> columns_to_option(self, columns)]

predict_invoke(self, fr, columns) ==
    [method |-> "predict", target |-> self._scala,
     frame |-> fr._scala, columns |-> columns_to_option(self, columns)]

\* faulty variant of add_distance_columns: forwards to the wrong engine method
add_distance_columns_invoke_wrong_method(self, fr, columns) ==
    [method |-> "predict", target |-> self._scala,
     frame |-> fr._scala, columns |-> columns_to_option(self, columns)]

add_distance_columns_invoke(self, fr, columns) ==
    [method |-> "addDistanceColumns", target |-> self._scala,
     frame |-> fr._scala, columns |-> columns_to_option(self, columns)]

\* faulty variant of save: the path argument not forwarded
save_invoke_wrong_path(self, path) ==
    [method |-> "save", target |-> self._scala, sc |-> "_scala_sc", path |-> "sandbox"]

save_invoke(self, path) ==
    [method |-> "save", target |-> self._scala, sc |-> "_scala_sc", path |-> path]

property_invoke(self, method) == [method |-> method, target |-> self._scala]

\* models/regression/random_forest_regressor.py: train and the predict of
\* its facade, which follow the same forwarding convention
regressor_train_invoke(fr, label_column, observation_columns) ==
    [method |-> "train", frame |-> fr._scala, labelColumn |-> label_column,
     observationColumns |-> to_scala_vector_string(observation_columns)]

regressor_train_result(tc, r) ==
    IF r.err # NoError THEN Raise(r.err) ELSE Ok([_tc |-> tc, _scala |-> r.val])

regressor_predict_invoke(self, fr, columns) ==
    [method |-> "predict", target |-> self._scala,
     frame |-> fr._scala, columns |-> columns_to_option(self, columns)]

regressor_predict_result(r) == IF r.err # NoError THEN Raise(r.err) ELSE Ok(PyNone)

\* what each method returns for the engine's outcome r
compute_sizes_result(r) ==
    IF r.err # NoError THEN Raise(r.err)
    ELSE LET sizes == r.val.items IN
         Ok(PyList([i \in 1..Len(sizes) |-> PyInt(sizes[i].twice \div 2)]))

compute_wsse_result(r) == IF r.err # NoError THEN Raise(r.err) ELSE Ok(FromJvm(r.val))

predict_result(r) == IF r.err # NoError THEN Raise(r.err) ELSE Ok(PyNone)

add_distance_columns_result(r) == IF r.err # NoError THEN Raise(r.err) ELSE Ok(PyNone)

save_result(r) == IF r.err # NoError THEN Raise(r.err) ELSE Ok(PyNone)

columns_result(self, r) ==
    IF r.err # NoError THEN Raise(r.err) ELSE Ok(from_scala_seq(r.val))

\* faulty variant of scalings: the engine sequence returned unconverted
scalings_result_raw(self, r) ==
    IF r.err # NoError THEN Raise(r.err) ELSE Ok(from_scala_option(r.val))

scalings_result(self, r) ==
    IF r.err # NoError THEN Raise(r.err)
    ELSE LET s == from_scala_option(r.val) IN
         IF Truthy(s) THEN Ok(from_scala_seq(s)) ELSE Ok(PyNone)

k_result(self, r) == IF r.err # NoError THEN Raise(r.err) ELSE Ok(FromJvm(r.val))

max_iterations_result(self, r) == IF r.err # NoError THEN Raise(r.err) ELSE Ok(FromJvm(r.val))

initialization_mode_result(self, r) == IF r.err # NoError THEN Raise(r.err) ELSE Ok(FromJvm(r.val))

centroids_result(self, r) ==
    IF r.err # NoError THEN Raise(r.err)
    ELSE LET arrays == r.val.items IN
         Ok(PyList([i \in 1..Len(arrays) |->
                       PyList([j \in 1..Len(arrays[i].items) |-> FromJvm(arrays[i].items[j])])]))

-----------------------------------------------------------------------------
(* The engine: the JVM-side KMeansModel and frame the binding forwards to. *)
(* A frame row holds plain integers.  A scaled observation and a centroid  *)
(* coordinate are in half units (value times the scaling's `twice`), a     *)
(* squared distance in quarter units.  The rows hold even numbers, so the  *)
(* observations are even and the squared distances whole multiples of 4.   *)

InitialNames == <<"x", "y">>
InitialRows == << <<0, 2>>, <<6, 2>> >>

NoFile == [t |-> "NoFile"]

\* a model that an earlier session trained on other data and saved
EarlierModel ==
    [columns |-> <<"x", "y">>, scalings |-> ScalaNone, k |-> 1, maxIterations |-> DefaultMaxIter,
     initializationMode |-> "random", centroids |-> << <<4, 4>> >>]
Paths == {"sandbox/kmeans1"}

FrameObj == [_tc |-> TC, _scala |-> [cls |-> FrameClass, id |-> 0]]
ModelHandle(i) == [cls |-> KMeansClass, id |-> i]
RegressorClass ==
    "org.trustedanalytics.sparktk.models.regression.random_forest_regressor.RandomForestRegressorModel"
RegressorHandle(i) == [cls |-> RegressorClass, id |-> i]
Handles ==
    {FrameObj._scala} \cup {ModelHandle(i) : i \in 1..Len(models)}
        \cup {RegressorHandle(i) : i \in 1..Len(regressors)}

RECURSIVE SumTo(_, _)
SumTo(f, n) == IF n = 0 THEN 0 ELSE f[n] + SumTo(f, n - 1)

IndexOf(seq, e) == CHOOSE i \in 1..Len(seq) : seq[i] = e

Range(seq) == {seq[i] : i \in 1..Len(seq)}

DistanceName(j) ==
    CASE j = 0 -> "distance0" [] j = 1 -> "distance1"
      [] j = 2 -> "distance2" [] OTHER -> "distance3"

\* the observation columns: the given ones, or the training-time default
ObservationColumns(m, c) == IF c = ScalaNone THEN m.columns ELSE c.get.items

ValidColumns(m, c) ==
    /\ Len(ObservationColumns(m, c)) = Len(m.columns)
    /\ Range(ObservationColumns(m, c)) \subseteq Range(frame.names)

ScalingTwice(scalings, i) ==
    IF scalings = ScalaNone THEN 2 ELSE scalings.get.items[i].twice

\* the scaled observation of a row, in half units
Observation(row, cols, scalings) ==
    [i \in 1..Len(cols) |-> row[IndexOf(frame.names, cols[i])] * ScalingTwice(scalings, i)]

\* squared Euclidean distance of an observation to a centroid
Distance(obs, centroid) ==
    SumTo([i \in 1..Len(obs) |-> (obs[i] - centroid[i]) * (obs[i] - centroid[i])], Len(obs))

\* the distances of a row to the k centroids
Distances(m, c, row) ==
    LET obs == Observation(row, ObservationColumns(m, c), m.scalings)
    IN [j \in 1..m.k |-> Distance(obs, m.centroids[j])]

\* index (from 0) of the nearest centroid, the first one on a tie
Cluster(m, c, row) ==
    LET d == Distances(m, c, row)
        j == CHOOSE a \in 1..m.k :
                 /\ \A b \in 1..m.k : d[a] <= d[b]
                 /\ \A b \in 1..(a - 1) : d[b] > d[a]
    IN j - 1

ClusterSizes(m, c) ==
    [j \in 1..m.k |-> Cardinality({r \in 1..Len(frame.rows) : Cluster(m, c, frame.rows[r]) = j - 1})]

Wsse(m, c) ==
    SumTo([r \in 1..Len(frame.rows) |->
              Distances(m, c, frame.rows[r])[Cluster(m, c, frame.rows[r]) + 1]],
          Len(frame.rows))

\* the model the engine trains: k rows of the frame, picked from the seed,
\* serve as the centroids
TrainedModel(inv, rnd) ==
    LET cols == inv.columns.items
        n == Len(frame.rows)
        start == IF inv.seed = ScalaNone THEN rnd ELSE (inv.seed.get.twice \div 2) % n
    IN [columns |-> cols,
        scalings |-> inv.scalings,
        k |-> inv.k,
        maxIterations |-> inv.maxIter,
        initializationMode |-> inv.initMode,
        centroids |-> [j \in 1..inv.k |->
                          Observation(frame.rows[((start + j - 1) % n) + 1], cols, inv.scalings)]]

ValidTrain(inv) ==
    /\ Len(inv.columns.items) > 0
    /\ Range(inv.columns.items) \subseteq Range(frame.names)
    /\ inv.k >= 1
    /\ inv.scalings # ScalaNone => Len(inv.scalings.get.items) = Len(inv.columns.items)

EngineFault == "EngineFault"
IllegalArgument == "IllegalArgumentException"

\* the outcome of an engine call: the error or the value, and the engine state after it
Outcome(e, v, ms, fr, st) == [err |-> e, val |-> v, models |-> ms, frame |-> fr, storage |-> st]
Failed(e) == Outcome(e, PyNone, models, frame, storage)
Pure(v) == Outcome(NoError, v, models, frame, storage)

EngineTrain(inv, fault, rnd) ==
    IF fault THEN Failed(EngineFault)
    ELSE IF ~ValidTrain(inv) THEN Failed(IllegalArgument)
    ELSE Outcome(NoError, ModelHandle(Len(models) + 1),
                 Append(models, TrainedModel(inv, rnd)), frame, storage)

EnginePredict(inv, fault) ==
    LET m == models[inv.target.id] IN
    IF fault THEN Failed(EngineFault)
    ELSE IF ~ValidColumns(m, inv.columns) \/ "cluster" \in Range(frame.names)
    THEN Failed(IllegalArgument)
    ELSE Outcome(NoError, PyNone, models,
                 [names |-> Append(frame.names, "cluster"),
                  rows |-> [r \in 1..Len(frame.rows) |->
                               Append(frame.rows[r], Cluster(m, inv.columns, frame.rows[r]))]],
                 storage)

EngineAddDistanceColumns(inv, fault) ==
    LET m == models[inv.target.id]
        new == [j \in 1..m.k |-> DistanceName(j - 1)]
    IN
    IF fault THEN Failed(EngineFault)
    ELSE IF ~ValidColumns(m, inv.columns) \/ Range(new) \cap Range(frame.names) # {}
    THEN Failed(IllegalArgument)
    ELSE Outcome(NoError, PyNone, models,
                 [names |-> frame.names \o new,
                  rows |-> [r \in 1..Len(frame.rows) |->
                               frame.rows[r] \o Distances(m, inv.columns, frame.rows[r])]],
                 storage)

EngineComputeClusterSizes(inv, fault) ==
    LET m == models[inv.target.id] IN
    IF fault THEN Failed(EngineFault)
    ELSE IF ~ValidColumns(m, inv.columns) THEN Failed(IllegalArgument)
    ELSE LET sizes == ClusterSizes(m, inv.columns) IN
         Pure(ScalaVector("Long", [j \in 1..m.k |-> JavaLong(sizes[j])]))

EngineComputeWsse(inv, fault) ==
    LET m == models[inv.target.id] IN
    IF fault THEN Failed(EngineFault)
    ELSE IF ~ValidColumns(m, inv.columns) THEN Failed(IllegalArgument)
    ELSE Pure(JavaDouble(Wsse(m, inv.columns) \div 2))

EngineSave(inv, fault) ==
    IF fault THEN Failed(EngineFault)
    ELSE Outcome(NoError, PyNone, models, frame,
                 [storage EXCEPT ![inv.path] = models[inv.target.id]])

EngineLoad(path, fault) ==
    IF fault THEN Failed(EngineFault)
    ELSE IF storage[path] = NoFile THEN Failed(IllegalArgument)
    ELSE Outcome(NoError, ModelHandle(Len(models) + 1),
                 Append(models, storage[path]), frame, storage)

EngineProperty(inv) ==
    LET m == models[inv.target.id] IN
    CASE inv.method = "columns" -> Pure(ScalaVector("String", m.columns))
      [] inv.method = "scalings" -> Pure(m.scalings)
      [] inv.method = "k" -> Pure(JavaInt(m.k))
      [] inv.method = "maxIterations" -> Pure(JavaInt(m.maxIterations))
      [] inv.method = "initializationMode" -> Pure(JavaString(m.initializationMode))
      [] OTHER ->
            Pure(ScalaVector("Array",
                    [j \in 1..m.k |->
                        ScalaVector("Double",
                            [i \in 1..Len(m.centroids[j]) |-> JavaDouble(m.centroids[j][i])])]))

\* the random forest regressor of the engine: training keeps the label and
\* observation columns; predict appends the column predicted_value
EngineRegressorTrain(inv, fault) ==
    IF fault THEN Failed(EngineFault)
    ELSE IF ~(Range(inv.observationColumns.items) \cup {inv.labelColumn} \subseteq Range(frame.names))
    THEN Failed(IllegalArgument)
    ELSE Pure(RegressorHandle(Len(regressors) + 1))

EngineRegressorPredict(inv, fault) ==
    LET m == regressors[inv.target.id]
        cols == IF inv.columns = ScalaNone THEN m.observationColumns ELSE inv.columns.get.items
    IN
    IF fault THEN Failed(EngineFault)
    ELSE IF \/ Len(cols) # Len(m.observationColumns)
            \/ ~(Range(cols) \subseteq Range(frame.names))
            \/ "predicted_value" \in Range(frame.names)
    THEN Failed(IllegalArgument)
    ELSE Outcome(NoError, PyNone, models,
                 [names |-> Append(frame.names, "predicted_value"),
                  rows |-> [r \in 1..Len(frame.rows) |->
                               Append(frame.rows[r],
                                      frame.rows[r][IndexOf(frame.names, m.labelColumn)])]],
                 storage)

\* the engine executes the invocation it receives
EngineCall(inv, fault, rnd) ==
    CASE inv.method = "train" -> EngineTrain(inv, fault, rnd)
      [] inv.method = "predict" -> EnginePredict(inv, fault)
      [] inv.method = "addDistanceColumns" -> EngineAddDistanceColumns(inv, fault)
      [] inv.method = "computeClusterSizes" -> EngineComputeClusterSizes(inv, fault)
      [] inv.method = "computeWsse" -> EngineComputeWsse(inv, fault)
      [] inv.method = "save" -> EngineSave(inv, fault)
      [] inv.method = "load" -> EngineLoad(inv.path, fault)
      [] OTHER -> EngineProperty(inv)

-----------------------------------------------------------------------------
(* The arguments callers pass.                                             *)

TrainColumnsArgs == {PyList(<<"x", "y">>)}
KArgs == {1, DefaultK}
ScalingsArgs == {PyNone, PyList(<<>>), PyList(<<PyInt(1), PyFloat(1)>>), PyList(<<PyInt(2)>>)}
SeedArgs == {PyNone, PyInt(0), PyInt(5), PyFloat(5), PyList(<<>>)}
ColumnsArgs == {PyNone, PyList(<<>>), PyList(<<"x", "y">>)}

-----------------------------------------------------------------------------
(* The state machine.                                                      *)

NoSave == [op |-> "other"]

\* the record of a call: its arguments, the engine invocation it made (if
\* any), the error the engine raised, and what the caller got back
CallRecord(op, self, arg, sent, nsent, engineErr, res) ==
    [op |-> op, self |-> self, arg |-> arg, sent |-> sent, nsent |-> nsent,
     engineErr |-> engineErr, raised |-> res.err, ret |-> res.val]

Remember ==
    prev' = IF last.op = "save" /\ last.raised = NoError
            THEN [op |-> "save", self |-> last.self, path |-> last.arg.path]
            ELSE NoSave

Apply(r) ==
    /\ models' = r.models
    /\ frame' = r.frame
    /\ storage' = r.storage
    /\ UNCHANGED regressors

Init ==
    /\ models = <<>>
    /\ frame = [names |-> InitialNames, rows |-> InitialRows]
    /\ storage \in [Paths -> {NoFile, EarlierModel}]
    /\ facades = {}
    /\ regressors = <<>>
    /\ last = CallRecord("none", PyNone, PyNone, PyNone, 0, NoError, Ok(PyNone))
    /\ prev = NoSave

\* a session that starts with nothing saved
InitFresh == Init /\ \A p \in Paths : storage[p] = NoFile

\* kmeans.train(frame, columns, k, scalings, max_iter, epsilon, seed, init_mode)
TrainWith(columnsArgs, kArgs, scalingsArgs, seedArgs) ==
    \E columns \in columnsArgs, k \in kArgs, scalings \in scalingsArgs,
       seed \in seedArgs, fault \in BOOLEAN :
      \E rnd \in IF seed = PyNone THEN 0..(Len(InitialRows) - 1) ELSE {0} :
        /\ Len(models) + Len(regressors) < MaxModels
        /\ LET arg == [columns |-> columns, k |-> k, scalings |-> scalings, seed |-> seed]
               call == train_invoke(FrameObj, columns, k, scalings, DefaultMaxIter,
                                    DefaultEpsilon, seed, DefaultInitMode)
           IN IF call.err # NoError
              THEN /\ last' = CallRecord("train", PyNone, arg, PyNone, 0, NoError, Raise(call.err))
                   /\ UNCHANGED <<models, frame, storage, facades, regressors>>
              ELSE LET r == EngineCall(call.val, fault, rnd)
                       res == train_result(TC, r)
                   IN /\ Apply(r)
                      /\ facades' = IF res.err = NoError THEN facades \cup {res.val} ELSE facades
                      /\ last' = CallRecord("train", PyNone, arg, call.val, 1, r.err, res)
        /\ Remember

\* KMeansModel(tc, scala_model) with any handle of the JVM
Construct ==
    \E h \in Handles :
        LET res == KMeansModel__init__(TC, h) IN
        /\ facades' = IF res.err = NoError THEN facades \cup {res.val} ELSE facades
        /\ last' = CallRecord("__init__", PyNone, [scala_model |-> h], PyNone, 0, NoError, res)
        /\ UNCHANGED <<models, frame, storage, regressors>>
        /\ Remember

\* KMeansModel.load(tc, scala_model) with any handle of the JVM
Load ==
    \E h \in Handles :
        LET res == KMeansModel_load(TC, h) IN
        /\ facades' = IF res.err = NoError THEN facades \cup {res.val} ELSE facades
        /\ last' = CallRecord("load", PyNone, [scala_model |-> h], PyNone, 0, NoError, res)
        /\ UNCHANGED <<models, frame, storage, regressors>>
        /\ Remember

\* tc.load(path): the engine restores the saved model and the result is
\* wrapped by KMeansModel.load
TcLoad ==
    \E path \in Paths, fault \in BOOLEAN :
        /\ Len(models) + Len(regressors) < MaxModels
        /\ LET inv == [method |-> "load", path |-> path]
               r == EngineCall(inv, fault, 0)
               res == IF r.err # NoError THEN Raise(r.err) ELSE KMeansModel_load(TC, r.val)
           IN /\ Apply(r)
              /\ facades' = IF res.err = NoError THEN facades \cup {res.val} ELSE facades
              /\ last' = CallRecord("tc.load", PyNone, [path |-> path],
                                    inv, 1, r.err, res)
        /\ Remember

\* a property read: one engine accessor call, converted
ReadProperty(self, name, inv, r, res) ==
    /\ last' = CallRecord(name, self, PyNone, inv, 1, r.err, res)
    /\ Apply(r)
    /\ UNCHANGED facades
    /\ Remember

GetColumns ==
    \E self \in facades :
        LET inv == property_invoke(self, "columns")
            r == EngineCall(inv, FALSE, 0)
        IN ReadProperty(self, "columns", inv, r, columns_result(self, r))

GetScalings ==
    \E self \in facades :
        LET inv == property_invoke(self, "scalings")
            r == EngineCall(inv, FALSE, 0)
        IN ReadProperty(self, "scalings", inv, r, scalings_result(self, r))

GetK ==
    \E self \in facades :
        LET inv == property_invoke(self, "k")
            r == EngineCall(inv, FALSE, 0)
        IN ReadProperty(self, "k", inv, r, k_result(self, r))

GetMaxIterations ==
    \E self \in facades :
        LET inv == property_invoke(self, "maxIterations")
            r == EngineCall(inv, FALSE, 0)
        IN ReadProperty(self, "max_iterations", inv, r, max_iterations_result(self, r))

GetInitializationMode ==
    \E self \in facades :
        LET inv == property_invoke(self, "initializationMode")
            r == EngineCall(inv, FALSE, 0)
        IN ReadProperty(self, "initialization_mode", inv, r, initialization_mode_result(self, r))

GetCentroids ==
    \E self \in facades :
        LET inv == property_invoke(self, "centroidsAsArrays")
            r == EngineCall(inv, FALSE, 0)
        IN ReadProperty(self, "centroids", inv, r, centroids_result(self, r))

\* faulty variant of the frame methods: the engine's return value bound to
\* self._scala
FrameMethod_rebinding(self, name, columns, inv, r, res) ==
    /\ last' = CallRecord(name, self, [columns |-> columns], inv, 1, r.err, res)
    /\ Apply(r)
    /\ facades' = (facades \ {self}) \cup {[self EXCEPT !._scala = r.val]}
    /\ Remember

\* a method call on a frame: one engine call, converted
FrameMethod(self, name, columns, inv, r, res) ==
    /\ last' = CallRecord(name, self, [columns |-> columns], inv, 1, r.err, res)
    /\ Apply(r)
    /\ UNCHANGED facades
    /\ Remember

ComputeSizesWith(columnsArgs) ==
    \E self \in facades, columns \in columnsArgs, fault \in BOOLEAN :
        LET inv == compute_sizes_invoke(self, FrameObj, columns)
            r == EngineCall(inv, fault, 0)
        IN FrameMethod(self, "compute_sizes", columns, inv, r, compute_sizes_result(r))

ComputeWsseWith(columnsArgs) ==
    \E self \in facades, columns \in columnsArgs, fault \in BOOLEAN :
        LET inv == compute_wsse_invoke(self, FrameObj, columns)
            r == EngineCall(inv, fault, 0)
        IN FrameMethod(self, "compute_wsse", columns, inv, r, compute_wsse_result(r))

PredictWith(columnsArgs) ==
    \E self \in facades, columns \in columnsArgs, fault \in BOOLEAN :
        LET inv == predict_invoke(self, FrameObj, columns)
            r == EngineCall(inv, fault, 0)
        IN FrameMethod(self, "predict", columns, inv, r, predict_result(r))

AddDistanceColumnsWith(columnsArgs) ==
    \E self \in facades, columns \in columnsArgs, fault \in BOOLEAN :
        LET inv == add_distance_columns_invoke(self, FrameObj, columns)
            r == EngineCall(inv, fault, 0)
        IN FrameMethod(self, "add_distance_columns", columns, inv, r,
                       add_distance_columns_result(r))

Save ==
    \E self \in facades, path \in Paths, fault \in BOOLEAN :
        LET inv == save_invoke(self, path)
            r == EngineCall(inv, fault, 0)
        IN /\ last' = CallRecord("save", self, [path |-> path], inv, 1, r.err, save_result(r))
           /\ Apply(r)
           /\ UNCHANGED facades
           /\ Remember

\* random_forest_regressor.train(frame, label_column, observation_columns)
TrainRegressor ==
    \E fault \in BOOLEAN :
        /\ Len(models) + Len(regressors) < MaxModels
        /\ LET inv == regressor_train_invoke(FrameObj, "y", PyList(<<"x">>))
               r == EngineRegressorTrain(inv, fault)
               res == regressor_train_result(TC, r)
           IN /\ regressors' = IF r.err = NoError
                                THEN Append(regressors, [labelColumn |-> inv.labelColumn,
                                                         observationColumns |-> inv.observationColumns.items])
                                ELSE regressors
              /\ last' = CallRecord("regressor.train", PyNone,
                                    [label_column |-> "y", observation_columns |-> PyList(<<"x">>)],
                                    inv, 1, r.err, res)
              /\ UNCHANGED <<models, frame, storage, facades>>
        /\ Remember

\* the regressor's predict(frame, columns)
RegressorPredict ==
    \E i \in 1..Len(regressors), columns \in {PyNone, PyList(<<"x">>)}, fault \in BOOLEAN :
        LET self == [_tc |-> TC, _scala |-> RegressorHandle(i)]
            inv == regressor_predict_invoke(self, FrameObj, columns)
            r == EngineRegressorPredict(inv, fault)
        IN /\ last' = CallRecord("regressor.predict", self, [columns |-> columns], inv, 1,
                                 r.err, regressor_predict_result(r))
           /\ frame' = r.frame
           /\ UNCHANGED <<models, storage, facades, regressors>>
           /\ Remember

-----------------------------------------------------------------------------
(* The life cycle of models: every operation of the binding, on a model    *)
(* trained with scalings and on a model restored from storage, used with   *)
(* the default columns.                                                    *)

ExampleSeed == 5

Train ==
    TrainWith(TrainColumnsArgs, {DefaultK},
              {PyList(<<PyInt(1), PyFloat(1)>>)}, {PyInt(ExampleSeed)})

ComputeSizes == ComputeSizesWith({PyNone})
ComputeWsse == ComputeWsseWith({PyNone})
Predict == PredictWith({PyNone})
AddDistanceColumns == AddDistanceColumnsWith({PyNone})

Next ==
    \/ Train
    \/ Construct
    \/ Load
    \/ TcLoad
    \/ GetColumns
    \/ GetScalings
    \/ GetK
    \/ GetMaxIterations
    \/ GetInitializationMode
    \/ GetCentroids
    \/ ComputeSizes
    \/ ComputeWsse
    \/ Predict
    \/ AddDistanceColumns
    \/ Save

Spec == Init /\ [][Next]_vars

-----------------------------------------------------------------------------
(* The marshalling of train's arguments: every combination of k, scalings  *)
(* and seed.                                                               *)

TrainAny == TrainWith(TrainColumnsArgs, KArgs, ScalingsArgs, SeedArgs)

NextTrain == TrainAny \/ GetScalings

SpecTrain == InitFresh /\ [][NextTrain]_vars

-----------------------------------------------------------------------------
(* The methods that take a frame, with every columns argument, on models   *)
(* of one and of two clusters, and the regressor's predict.                *)

TrainK == TrainWith(TrainColumnsArgs, KArgs, {PyNone}, {PyInt(ExampleSeed)})

ComputeSizesAny == ComputeSizesWith(ColumnsArgs)
ComputeWsseAny == ComputeWsseWith(ColumnsArgs)
PredictAny == PredictWith(ColumnsArgs)
AddDistanceColumnsAny == AddDistanceColumnsWith(ColumnsArgs)

NextFrame ==
    \/ TrainK
    \/ TrainRegressor
    \/ RegressorPredict
    \/ ComputeSizesAny
    \/ ComputeWsseAny
    \/ PredictAny
    \/ AddDistanceColumnsAny

SpecFrame == InitFresh /\ [][NextFrame]_vars

-----------------------------------------------------------------------------
(* Persistence: models trained with either k, with and without scalings,   *)
(* saved and restored.                                                     *)

TrainPersist ==
    TrainWith(TrainColumnsArgs, KArgs,
              {PyNone, PyList(<<PyInt(1), PyFloat(1)>>)}, {PyInt(ExampleSeed)})

ComputeSizesPersist == ComputeSizesWith(ColumnsArgs)

NextPersist ==
    \/ TrainPersist
    \/ Save
    \/ TcLoad
    \/ GetCentroids
    \/ ComputeSizesPersist

SpecPersist == Init /\ [][NextPersist]_vars

-----------------------------------------------------------------------------
(* Properties.                                                             *)

\* the value of each property of a facade, read now
Properties(f) ==
    [columns |-> columns_result(f, EngineCall(property_invoke(f, "columns"), FALSE, 0)),
     scalings |-> scalings_result(f, EngineCall(property_invoke(f, "scalings"), FALSE, 0)),
     k |-> k_result(f, EngineCall(property_invoke(f, "k"), FALSE, 0)),
     max_iterations |->
         max_iterations_result(f, EngineCall(property_invoke(f, "maxIterations"), FALSE, 0)),
     initialization_mode |->
         initialization_mode_result(f, EngineCall(property_invoke(f, "initializationMode"), FALSE, 0)),
     centroids |->
         centroids_result(f, EngineCall(property_invoke(f, "centroidsAsArrays"), FALSE, 0))]

\* what compute_sizes returns for a facade and a columns argument, called now
Sizes(f, c) == compute_sizes_result(EngineCall(compute_sizes_invoke(f, FrameObj, c), FALSE, 0))

NoDuplicates(seq) == Cardinality(Range(seq)) = Len(seq)

\* rows `after` are rows `before` with n values appended to each
RowsExtended(before, after, n) ==
    /\ Len(after) = Len(before)
    /\ \A r \in 1..Len(before) :
          /\ Len(after[r]) = Len(before[r]) + n
          /\ SubSeq(after[r], 1, Len(before[r])) = before[r]

\* C1: no facade wraps a handle that is not a k-means model; the constructor
\* and KMeansModel.load, given such a handle, raise a type error and return
\* no object.
C1_WrongHandleRejected ==
    /\ \A f \in facades : f._scala.cls = KMeansClass
    /\ (last.op \in {"__init__", "load"} /\ last.arg.scala_model.cls # KMeansClass)
          => (last.raised = "TypeError" /\ last.ret = PyNone)

C1_Witness ==
    /\ last.op = "load"
    /\ last.arg.scala_model.cls = FrameClass
    /\ last.raised = "TypeError"

FrameMethods == {"predict", "compute_sizes", "compute_wsse", "add_distance_columns"}

\* C2: each of predict, compute_sizes, compute_wsse and add_distance_columns
\* hands the engine the empty option exactly when columns is None, and
\* otherwise a present option with the same names in the same order (also
\* for an empty sequence); the four agree for every columns argument.
C2_SameColumnsPolicy ==
    /\ last.op \in FrameMethods =>
          /\ (last.sent.columns = ScalaNone) <=> (last.arg.columns = PyNone)
          /\ last.arg.columns # PyNone =>
                /\ last.sent.columns.t = "Some"
                /\ last.sent.columns.get.items = last.arg.columns.items
    /\ \A f \in facades, c \in ColumnsArgs :
          /\ compute_sizes_invoke(f, FrameObj, c).columns = predict_invoke(f, FrameObj, c).columns
          /\ compute_wsse_invoke(f, FrameObj, c).columns = predict_invoke(f, FrameObj, c).columns
          /\ add_distance_columns_invoke(f, FrameObj, c).columns
                = predict_invoke(f, FrameObj, c).columns

C2_Witness ==
    /\ last.op = "add_distance_columns"
    /\ last.arg.columns = PyList(<<>>)
    /\ last.sent.columns = ScalaSome(ScalaVector("String", <<>>))

\* C3: train hands the engine the empty option for scalings exactly when the
\* caller passed None, and for every sequence the caller passed a present
\* option holding the same values in the same order.
C3_ScalingsFaithful ==
    (last.op = "train" /\ last.nsent = 1) =>
        /\ (last.sent.scalings = ScalaNone) <=> (last.arg.scalings = PyNone)
        /\ last.arg.scalings # PyNone =>
              /\ last.sent.scalings.t = "Some"
              /\ Len(last.sent.scalings.get.items) = Len(last.arg.scalings.items)
              /\ \A i \in 1..Len(last.arg.scalings.items) :
                    last.sent.scalings.get.items[i].twice = last.arg.scalings.items[i].twice

\* C4: for every seed, train raises a type error, or hands the engine the
\* empty option (exactly when seed is None), or hands it a present option
\* whose value equals the caller's seed.
C4_SeedExactOrRejected ==
    last.op = "train" =>
        \/ last.raised = "TypeError"
        \/ /\ last.nsent = 1
           /\ (last.sent.seed = ScalaNone) <=> (last.arg.seed = PyNone)
           /\ last.arg.seed # PyNone =>
                 /\ last.sent.seed.t = "Some"
                 /\ last.sent.seed.get.twice = last.arg.seed.twice

\* C5: a model restored by tc.load from the path it was just saved to has
\* the same properties and the same compute_sizes results as the model that
\* was saved, and save leaves the properties of the model it saves unchanged.
C5_RoundTripState ==
    (/\ last.op = "tc.load" /\ last.raised = NoError
     /\ prev.op = "save" /\ prev.path = last.arg.path) =>
        /\ Properties(last.ret) = Properties(prev.self)
        /\ \A c \in ColumnsArgs : Sizes(last.ret, c) = Sizes(prev.self, c)

C5_SaveStep ==
    \A f \in facades : (last'.op = "save" /\ last'.self = f) => Properties(f)' = Properties(f)

\* C5: a model loaded straight after a successful save to the same path has the
\* saved model's properties and cluster sizes, and saving leaves the saved model as it was.
C5_PersistenceRoundTrip == []C5_RoundTripState /\ [][C5_SaveStep]_vars

C5_Witness ==
    /\ last.op = "tc.load" /\ last.raised = NoError
    /\ prev.op = "save" /\ prev.path = last.arg.path
    /\ last.ret._scala # prev.self._scala
    /\ Properties(last.ret).scalings.val # PyNone

PredictionColumn(op) == IF op = "predict" THEN "cluster" ELSE "predicted_value"

\* C6: a predict that succeeds returns nothing and changes the frame in place:
\* the column names become the names before plus the one prediction column
\* (cluster for k-means, predicted_value for the regressor), with no
\* duplicate and every earlier column kept as it was; and on a frame that
\* has no prediction column yet, predict with the default columns succeeds
\* unless the engine faults.
C6_PredictStep ==
    (last'.op \in {"predict", "regressor.predict"} /\ last'.raised = NoError) =>
        /\ last'.ret = PyNone
        /\ frame'.names = Append(frame.names, PredictionColumn(last'.op))
        /\ Len(frame'.names) = Len(frame.names) + 1
        /\ NoDuplicates(frame'.names)
        /\ RowsExtended(frame.rows, frame'.rows, 1)

C6_PredictEnabled ==
    /\ \A f \in facades :
          "cluster" \notin Range(frame.names) =>
              predict_result(EngineCall(predict_invoke(f, FrameObj, PyNone), FALSE, 0)) = Ok(PyNone)
    /\ \A i \in 1..Len(regressors) :
          "predicted_value" \notin Range(frame.names) =>
              EngineRegressorPredict(
                  regressor_predict_invoke([_tc |-> TC, _scala |-> RegressorHandle(i)],
                                           FrameObj, PyNone), FALSE).err = NoError

\* C6: predict is always callable on a frame without the prediction column, and
\* every successful predict appends exactly that one column, keeping the others.
C6_PredictAppendsOneColumn == []C6_PredictEnabled /\ [][C6_PredictStep]_vars

C6_Witness ==
    /\ last.op = "regressor.predict" /\ last.raised = NoError
    /\ frame.names = InitialNames \o <<"cluster", "predicted_value">>

\* C7: no operation changes an existing engine-side model or an existing
\* facade, so every property of every facade keeps its value (the properties
\* are read from `models`, so they are compared on the steps that change it).
C7_Step ==
    /\ Len(models') >= Len(models)
    /\ \A i \in 1..Len(models) : models'[i] = models[i]
    /\ facades \subseteq facades'
    /\ \A f \in facades : models' # models => Properties(f)' = Properties(f)

\* C7: no step changes an existing model's state or an existing facade's handle.
C7_TrainedModelImmutable == [][C7_Step]_vars

C7_Witness ==
    /\ last.op = "save" /\ last.raised = NoError
    /\ {"cluster", "distance0"} \subseteq Range(frame.names)
    /\ Cardinality(facades) = MaxModels

\* C8: when the engine call of train or of a facade method fails, the caller
\* gets that same error after the one engine invocation, nothing is
\* returned, and the facades and the engine state are as before the call.
C8_FailureState ==
    last.engineErr # NoError =>
        /\ last.raised = last.engineErr
        /\ last.nsent = 1
        /\ last.ret = PyNone

C8_FailureStep ==
    last'.engineErr # NoError => UNCHANGED <<models, frame, storage, facades, regressors>>

\* C8: a call the engine fails raises the engine's error, returns nothing and
\* changes no model, frame, storage or facade.
C8_FailuresPropagate == []C8_FailureState /\ [][C8_FailureStep]_vars

C8_Witness ==
    /\ last.op = "train"
    /\ last.engineErr = EngineFault
    /\ facades # {}

\* C9: an add_distance_columns that succeeds on a model of k clusters returns
\* nothing and appends to the frame exactly the columns distance0 ..
\* distance(k-1), every earlier column kept as it was; the cluster predict
\* assigns to a row has the smallest of the row's distances.
C9_Step ==
    (last'.op = "add_distance_columns" /\ last'.raised = NoError) =>
        LET m == models[last'.self._scala.id]
            c == columns_to_option(last'.self, last'.arg.columns)
            n == Len(frame.names)
        IN /\ last'.ret = PyNone
           /\ frame'.names = frame.names \o [j \in 1..m.k |-> DistanceName(j - 1)]
           /\ NoDuplicates(frame'.names)
           /\ RowsExtended(frame.rows, frame'.rows, m.k)
           /\ \A r \in 1..Len(frame.rows), j \in 1..m.k :
                 frame'.rows[r][n + Cluster(m, c, frame.rows[r]) + 1] <= frame'.rows[r][n + j]

\* C9: a successful add_distance_columns appends distance0..distance(k-1) after the
\* existing columns, and the predicted cluster is one of least distance.
C9_DistanceColumnsAppended == [][C9_Step]_vars

C9_Witness ==
    /\ last.op = "add_distance_columns" /\ last.raised = NoError
    /\ frame.names = InitialNames \o <<"cluster", "distance0", "distance1">>

\* C10: the scalings property returns None exactly when the handle's option
\* is empty, and otherwise the list of the handle's values in order; each
\* read makes one engine call, and a facade holds nothing but its context
\* and its handle.
C10_ScalingsRoundTrip ==
    /\ last.op = "scalings" =>
          LET opt == models[last.self._scala.id].scalings IN
          /\ last.nsent = 1
          /\ (last.ret = PyNone) <=> (opt = ScalaNone)
          /\ opt # ScalaNone =>
                last.ret = PyList([i \in 1..Len(opt.get.items) |-> PyFloat(opt.get.items[i].twice)])
    /\ \A f \in facades : DOMAIN f = {"_tc", "_scala"}

C10_Witness ==
    /\ last.op = "scalings"
    /\ last.ret = PyList(<<PyFloat(2), PyFloat(1)>>)

====
